---- MODULE Spec2Model ----
(***************************************************************************)
(* Model of mkdocs_py_ref_gen: the option formatter (dict_to_yaml,         *)
(* get_options_str, get_md_content), the exclusion predicate               *)
(* (_normalize_paths, _should_exclude), the reference renderer             *)
(* (render_ref, generate_summary) and the plugin entry point               *)
(* (MkDocsPyRefGenPlugin.on_files).                                        *)
(*                                                                         *)
(* Text is modelled by TLA+ strings, paths by POSIX path strings, Python   *)
(* dicts by insertion-ordered sequences of <<key, value>> pairs, and       *)
(* Python values by tagged records.  The platform is POSIX.                *)
(***************************************************************************)
EXTENDS Integers, Sequences, FiniteSets, TLC

(***************************************************************************)
(* Bounds of the model.                                                    *)
(***************************************************************************)
MaxFiles == 4
MaxModules == 2
MaxExcl == 2
MaxIndent == 2

(***************************************************************************)
(* Strings.                                                                *)
(***************************************************************************)
CharAt(s, i) == SubSeq(s, i, i)

\* str.startswith
StartsWith(s, p) == Len(p) <= Len(s) /\ SubSeq(s, 1, Len(p)) = p

\* str.endswith
EndsWith(s, e) == Len(e) <= Len(s) /\ SubSeq(s, Len(s) - Len(e) + 1, Len(s)) = e

\* the characters the model's paths use, in code point order
CodePoints == "-./0123456789_abcdefghijklmnopqrstuvwxyz"

Ord(c) == CHOOSE i \in 1..Len(CodePoints) : CharAt(CodePoints, i) = c

RECURSIVE StrLessFrom(_, _, _)
StrLessFrom(a, b, i) ==
    IF i > Len(b) THEN FALSE
    ELSE IF i > Len(a) THEN TRUE
    ELSE IF CharAt(a, i) # CharAt(b, i) THEN Ord(CharAt(a, i)) < Ord(CharAt(b, i))
    ELSE StrLessFrom(a, b, i + 1)

\* Python's str.__lt__: code point by code point, a proper prefix is smaller
StrLess(a, b) == StrLessFrom(a, b, 1)

RECURSIVE SeqLessFrom(_, _, _)
SeqLessFrom(a, b, i) ==
    IF i > Len(b) THEN FALSE
    ELSE IF i > Len(a) THEN TRUE
    ELSE IF a[i] # b[i] THEN StrLess(a[i], b[i])
    ELSE SeqLessFrom(a, b, i + 1)

\* Python's tuple.__lt__ on tuples of strings
SeqLess(a, b) == SeqLessFrom(a, b, 1)

RECURSIVE SplitFrom(_, _, _, _)
SplitFrom(s, sep, i, cur) ==
    IF i > Len(s) THEN <<cur>>
    ELSE IF CharAt(s, i) = sep THEN <<cur>> \o SplitFrom(s, sep, i + 1, "")
    ELSE SplitFrom(s, sep, i + 1, cur \o CharAt(s, i))

\* str.split(sep) for a one-character separator
Split(s, sep) == SplitFrom(s, sep, 1, "")

RECURSIVE Join(_, _)
\* sep.join(parts)
Join(parts, sep) ==
    IF parts = <<>> THEN ""
    ELSE IF Len(parts) = 1 THEN parts[1]
    ELSE parts[1] \o sep \o Join(Tail(parts), sep)

RECURSIVE Repeat(_, _)
\* s * n
Repeat(s, n) == IF n <= 0 THEN "" ELSE s \o Repeat(s, n - 1)

RECURSIVE SelectSeqStr(_, _)
\* the components of a split path that pathlib keeps: not empty, not "."
SelectSeqStr(parts, drop) ==
    IF parts = <<>> THEN <<>>
    ELSE IF parts[1] \in drop THEN SelectSeqStr(Tail(parts), drop)
    ELSE <<parts[1]>> \o SelectSeqStr(Tail(parts), drop)

(***************************************************************************)
(* pathlib / os.path on POSIX.                                             *)
(***************************************************************************)
IsAbs(p) == StartsWith(p, "/")

\* PurePosixPath.parts: the root "/" is a part of an absolute path
Parts(p) ==
    (IF IsAbs(p) THEN <<"/">> ELSE <<>>) \o SelectSeqStr(Split(p, "/"), {"", "."})

\* pathlib.Path(p).as_posix(): repeated and trailing separators and "."
\* components go, the empty path is "."
AsPosix(p) ==
    LET comps == SelectSeqStr(Split(p, "/"), {"", "."})
    IN  IF IsAbs(p) THEN "/" \o Join(comps, "/")
        ELSE IF comps = <<>> THEN "."
        ELSE Join(comps, "/")

\* pathlib.Path(a, b)
JoinPath(a, b) == IF IsAbs(b) THEN AsPosix(b) ELSE AsPosix(a \o "/" \o b)

\* the working directory of the process
Cwd == "/w"

\* Path.absolute().as_posix()
Absolute(p) == IF IsAbs(p) THEN p ELSE Cwd \o "/" \o p

\* os.path.basename
Basename(p) == LET c == Split(p, "/") IN c[Len(c)]

\* os.path.dirname
Dirname(p) ==
    LET c == Split(p, "/")
        d == Join(SubSeq(c, 1, Len(c) - 1), "/")
    IN  IF d = "" /\ IsAbs(p) THEN "/" ELSE d

\* Path.relative_to(base), for a path under base
RelativeTo(p, base) ==
    LET pp == Parts(p)
        bp == Parts(base)
    IN  Join(SubSeq(pp, Len(bp) + 1, Len(pp)), "/")

\* the suffix of the final component: from its last dot, if that dot is not
\* the first character
RECURSIVE LastDot(_, _)
LastDot(name, i) ==
    IF i <= 1 THEN 0
    ELSE IF CharAt(name, i) = "." THEN i
    ELSE LastDot(name, i - 1)

\* Path.with_suffix(suffix)
WithSuffix(p, suffix) ==
    LET name == Basename(p)
        dot  == LastDot(name, Len(name) - 1)
        stem == IF dot = 0 THEN name ELSE SubSeq(name, 1, dot - 1)
        dir  == SubSeq(p, 1, Len(p) - Len(name))
    IN  dir \o stem \o suffix

\* Path.with_name(name)
WithName(p, name) == SubSeq(p, 1, Len(p) - Len(Basename(p))) \o name

(***************************************************************************)
(* Python values: str, bool, int, None and dict (a sequence of             *)
(* <<key, value>> pairs in insertion order).                               *)
(***************************************************************************)
VStr(s) == [t |-> "str", s |-> s]
VBool(b) == [t |-> "bool", b |-> b]
VInt(n) == [t |-> "int", n |-> n]
VNone == [t |-> "none"]
VDict(d) == [t |-> "dict", d |-> d]

Digits == "0123456789"

RECURSIVE NatToStr(_)
NatToStr(n) ==
    IF n < 10 THEN CharAt(Digits, n + 1)
    ELSE NatToStr(n \div 10) \o CharAt(Digits, (n % 10) + 1)

\* str(value)
Str(v) ==
    CASE v.t = "str" -> v.s
      [] v.t = "int" -> IF v.n < 0 THEN "-" \o NatToStr(0 - v.n) ELSE NatToStr(v.n)
      [] v.t = "none" -> "None"
      [] v.t = "bool" -> IF v.b THEN "True" ELSE "False"

\* bool(value)
Truthy(v) ==
    CASE v.t = "str" -> v.s # ""
      [] v.t = "int" -> v.n # 0
      [] v.t = "none" -> FALSE
      [] v.t = "bool" -> v.b
      [] v.t = "dict" -> v.d # <<>>

DictKeys(d) == {d[i][1] : i \in 1..Len(d)}

DictGet(d, k) == d[CHOOSE i \in 1..Len(d) : d[i][1] = k][2]

\* d[k] = v: an existing key keeps its position, a new key goes last
DictSet(d, k, v) ==
    IF k \in DictKeys(d)
    THEN [i \in 1..Len(d) |-> IF d[i][1] = k THEN <<k, v>> ELSE d[i]]
    ELSE Append(d, <<k, v>>)

RECURSIVE DictMergeSwapped(_, _)
DictMergeSwapped(a, b) ==
    IF a = <<>> THEN b
    ELSE LET init == SubSeq(a, 1, Len(a) - 1)
             last == a[Len(a)]
         IN  DictSet(DictMergeSwapped(init, b), last[1], last[2])

RECURSIVE DictMerge(_, _)
\* {**a, **b}
DictMerge(a, b) ==
    IF b = <<>> THEN a
    ELSE LET init == SubSeq(b, 1, Len(b) - 1)
             last == b[Len(b)]
         IN  DictSet(DictMerge(a, init), last[1], last[2])

(***************************************************************************)
(* The option formatter.                                                   *)
(***************************************************************************)
RECURSIVE DictToYamlNoBool(_, _)
DictToYamlNoBool(data, indent) ==
    IF data = <<>> THEN ""
    ELSE LET key   == data[1][1]
             value == data[1][2]
             line  == Repeat("  ", indent) \o key \o ":" \o
                      (IF value.t = "dict"
                       THEN "\n" \o DictToYamlNoBool(value.d, indent + 1)
                       ELSE " " \o Str(value) \o "\n")
         IN  line \o DictToYamlNoBool(Tail(data), indent)

RECURSIVE DictToYaml(_, _)
\* dict_to_yaml(data, indent)
DictToYaml(data, indent) ==
    IF data = <<>> THEN ""
    ELSE LET key   == data[1][1]
             value == data[1][2]
             line  == Repeat("  ", indent) \o key \o ":" \o
                      (IF value.t = "dict"
                       THEN "\n" \o DictToYaml(value.d, indent + 1)
                       ELSE IF value.t = "bool"
                       THEN " " \o (IF value.b THEN "true" ELSE "false") \o "\n"
                       ELSE " " \o Str(value) \o "\n")
         IN  line \o DictToYaml(Tail(data), indent)

\* the defaults of get_options_str
Defaults ==
    << <<"show_root_heading", VStr("false")>>,
       <<"allow_inspection", VStr("false")>>,
       <<"show_root_full_path", VStr("true")>>,
       <<"find_stubs_package", VStr("true")>>,
       <<"show_source", VStr("false")>>,
       <<"show_submodules", VStr("false")>>,
       <<"members_order", VStr("source")>>,
       <<"inherited_members", VStr("false")>>,
       <<"summary", VDict(<< <<"attributes", VBool(TRUE)>>,
                             <<"methods", VBool(TRUE)>>,
                             <<"classes", VBool(TRUE)>>,
                             <<"modules", VBool(FALSE)>> >>)>>,
       <<"imported_members", VStr("true")>>,
       <<"docstring_section_style", VStr("spacy")>>,
       <<"relative_crossrefs", VStr("true")>>,
       <<"show_root_members_full_path", VStr("false")>>,
       <<"show_object_full_path", VStr("false")>>,
       <<"annotations_path", VStr("source")>>,
       <<"show_category_heading", VStr("true")>>,
       <<"group_by_category", VStr("true")>>,
       <<"show_signature_annotations", VStr("true")>>,
       <<"separate_signature", VStr("true")>>,
       <<"signature_crossrefs", VStr("true")>> >>

\* the indent get_options_str serializes at
OptionsIndent == 3

\* options or {}
OrEmpty(options) == IF Truthy(options) THEN options.d ELSE <<>>

GetOptionsStrDefaultsWin(options) ==
    DictToYaml(DictMergeSwapped(Defaults, OrEmpty(options)), OptionsIndent)

\* get_options_str(options)
GetOptionsStr(options) ==
    DictToYaml(DictMerge(Defaults, OrEmpty(options)), OptionsIndent)

\* get_md_content(identifier, options)
GetMdContent(identifier, options) ==
    "\n::: " \o identifier \o "\n    handler: python\n    options:\n"
        \o GetOptionsStr(options) \o "\n"

(***************************************************************************)
(* The exclusion predicate.                                                *)
(***************************************************************************)
\* _normalize_paths(paths)
NormalizePaths(paths) ==
    LET kept == SelectSeq(paths, LAMBDA p : p # "")
    IN  [i \in 1..Len(kept) |-> AsPosix(kept[i])]

ShouldExcludeNoPrivate(path, exclude_files, exclude_dirs) ==
    LET files == NormalizePaths(exclude_files)
        dirs  == NormalizePaths(exclude_dirs)
    IN  IF \E i \in 1..Len(files) : EndsWith(Absolute(path), files[i]) THEN TRUE
        ELSE \E i \in 1..Len(dirs) : EndsWith(Dirname(path), dirs[i])

\* _should_exclude(path, exclude_files, exclude_dirs)
ShouldExclude(path, exclude_files, exclude_dirs) ==
    IF StartsWith(Basename(path), "_") THEN TRUE
    ELSE LET files == NormalizePaths(exclude_files)
             dirs  == NormalizePaths(exclude_dirs)
         IN  IF \E i \in 1..Len(files) : EndsWith(Absolute(path), files[i]) THEN TRUE
             ELSE \E i \in 1..Len(dirs) : EndsWith(Dirname(path), dirs[i])

(***************************************************************************)
(* The file system and the plugin configuration.                           *)
(***************************************************************************)
\* the files that may exist, as absolute paths
FileUniverse ==
    { "/w/r/pkg/__init__.py", "/w/r/pkg/__main__.py", "/w/r/pkg/mod_a.py",
      "/w/r/pkg/mod_b.py", "/w/r/pkg/sub.py", "/w/r/pkg/sub/mod_a.py",
      "/w/r/pkg/notes.txt", "/w/r/lib/core.py" }

FileSystems == {S \in SUBSET FileUniverse : Cardinality(S) <= MaxFiles}

\* the directory on the import search path
SysPath == "/w/r"

ModuleConf(name, path, exclude_files, exclude_dirs, options) ==
    [name |-> name, path |-> path, exclude_files |-> exclude_files,
     exclude_dirs |-> exclude_dirs, options |-> options]

\* the entries a configuration's module list is drawn from
ModuleConfs ==
    { ModuleConf("pkg", "r", <<"mod_b.py">>, <<>>, VDict(<<>>)),
      ModuleConf("pkg", "", <<>>, <<"sub">>,
                 VDict(<< <<"show_root_heading", VStr("true")>> >>)),
      ModuleConf("lib", "r", <<>>, <<>>,
                 VDict(<< <<"summary", VDict(<< <<"modules", VBool(TRUE)>> >>)>> >>)),
      ModuleConf("", "", <<>>, <<>>, VDict(<<>>)) }

SeqsUpTo(S, n) == UNION {[1..k -> S] : k \in 0..n}

Configs == SeqsUpTo(ModuleConfs, MaxModules)

(***************************************************************************)
(* The reference renderer.                                                 *)
(***************************************************************************)
\* get_module_path(module_name): the parent of the parent of the file the
\* loader names, or the error raised
GetModulePath(module_name, files) ==
    IF module_name = "" THEN [ok |-> FALSE, err |-> "ValueError"]
    ELSE IF (SysPath \o "/" \o module_name \o "/__init__.py") \in files
    THEN [ok |-> TRUE, path |-> Dirname(Dirname(SysPath \o "/" \o module_name \o "/__init__.py"))]
    ELSE IF (SysPath \o "/" \o module_name \o ".py") \in files
    THEN [ok |-> TRUE, path |-> Dirname(Dirname(SysPath \o "/" \o module_name \o ".py"))]
    ELSE [ok |-> FALSE, err |-> "ImportError"]

\* pathlib.Path(root).rglob("*.py"): the set of files it yields, each
\* spelled from root as given
RGlob(root, files) ==
    LET base == Absolute(root) \o "/"
    IN  { root \o "/" \o SubSeq(f, Len(base) + 1, Len(f)) :
            f \in {g \in files : StartsWith(g, base) /\ EndsWith(g, ".py")} }

\* the orders in which the file system may enumerate a set of files
Enumerations(S) ==
    {e \in [1..Cardinality(S) -> S] : \A i, j \in 1..Cardinality(S) : i # j => e[i] # e[j]}

\* PurePath.__lt__: paths compare by their tuples of parts
PathLess(p, q) == SeqLess(Parts(p), Parts(q))

InsertSorted(sorted, p) ==
    LET before == {i \in 1..Len(sorted) : ~PathLess(p, sorted[i])}
        k == Cardinality(before)
    IN  SubSeq(sorted, 1, k) \o <<p>> \o SubSeq(sorted, k + 1, Len(sorted))

Unsorted(paths) == paths

RECURSIVE SortedByString(_)
SortedByString(paths) ==
    IF paths = <<>> THEN <<>>
    ELSE LET rest == SortedByString(SubSeq(paths, 1, Len(paths) - 1))
             p == paths[Len(paths)]
             k == Cardinality({i \in 1..Len(rest) : ~StrLess(p, rest[i])})
         IN  SubSeq(rest, 1, k) \o <<p>> \o SubSeq(rest, k + 1, Len(rest))

RECURSIVE Sorted(_)
\* sorted(paths)
Sorted(paths) ==
    IF paths = <<>> THEN <<>>
    ELSE InsertSorted(Sorted(SubSeq(paths, 1, Len(paths) - 1)), paths[Len(paths)])

Skip == [skip |-> TRUE, parts |-> <<>>, doc_path |-> "", full_doc_path |-> ""]

RenderTargetIgnoringLists(path, module) ==
    IF ShouldExclude(path, <<>>, <<>>) THEN Skip
    ELSE LET module_path   == WithSuffix(RelativeTo(path, module.path), "")
             doc_path      == WithSuffix(RelativeTo(path, module.path), ".md")
             full_doc_path == JoinPath("reference", doc_path)
             parts         == Parts(module_path)
         IN  [skip |-> FALSE, parts |-> parts, doc_path |-> doc_path,
              full_doc_path |-> full_doc_path]

RenderTargetFullDocPath(path, module) ==
    IF ShouldExclude(path, module.exclude_files, module.exclude_dirs) THEN Skip
    ELSE LET module_path   == WithSuffix(RelativeTo(path, module.path), "")
             doc_path      == WithSuffix(RelativeTo(path, module.path), ".md")
             full_doc_path == JoinPath("reference", doc_path)
             parts         == Parts(module_path)
         IN  IF parts[Len(parts)] = "__init__"
             THEN [skip |-> FALSE, parts |-> SubSeq(parts, 1, Len(parts) - 1),
                   doc_path |-> WithName(full_doc_path, "index.md"),
                   full_doc_path |-> WithName(full_doc_path, "index.md")]
             ELSE IF parts[Len(parts)] = "__main__" THEN Skip
             ELSE [skip |-> FALSE, parts |-> parts, doc_path |-> full_doc_path,
                   full_doc_path |-> full_doc_path]

\* the body of render_ref's loop up to the navigation entry: whether the
\* file is skipped, and its segments and document paths if it is not
RenderTarget(path, module) ==
    IF ShouldExclude(path, module.exclude_files, module.exclude_dirs) THEN Skip
    ELSE LET module_path   == WithSuffix(RelativeTo(path, module.path), "")
             doc_path      == WithSuffix(RelativeTo(path, module.path), ".md")
             full_doc_path == JoinPath("reference", doc_path)
             parts         == Parts(module_path)
         IN  IF parts[Len(parts)] = "__init__"
             THEN [skip |-> FALSE, parts |-> SubSeq(parts, 1, Len(parts) - 1),
                   doc_path |-> WithName(doc_path, "index.md"),
                   full_doc_path |-> WithName(full_doc_path, "index.md")]
             ELSE IF parts[Len(parts)] = "__main__" THEN Skip
             ELSE [skip |-> FALSE, parts |-> parts, doc_path |-> doc_path,
                   full_doc_path |-> full_doc_path]

\* print(text, file=fd)
PrintNoNewline(text) == text

PrintLine(text) == text \o "\n"

\* what render_ref writes to the stub of a file
StubContent(parts, options) == PrintLine(GetMdContent(Join(parts, "."), options))

(***************************************************************************)
(* The navigation object (mkdocs_gen_files.Nav): a mapping from segment    *)
(* tuples to document paths that keeps first-insertion order.              *)
(***************************************************************************)
NoFile == "<none>"

RECURSIVE FirstKeys(_, _, _)
\* the segments that follow prefix in the entries, in order of first use
FirstKeys(entries, prefix, seen) ==
    IF entries = <<>> THEN <<>>
    ELSE LET parts == entries[1][1]
             n     == Len(prefix)
         IN  IF Len(parts) > n /\ SubSeq(parts, 1, n) = prefix /\ parts[n + 1] \notin seen
             THEN <<parts[n + 1]>> \o FirstKeys(Tail(entries), prefix, seen \cup {parts[n + 1]})
             ELSE FirstKeys(Tail(entries), prefix, seen)

RECURSIVE NavLines(_, _)
RECURSIVE NavLinesOf(_, _, _)
NavLinesOf(entries, prefix, keys) ==
    IF keys = <<>> THEN ""
    ELSE LET here == Append(prefix, keys[1])
             link == IF here \in DictKeys(entries)
                     THEN "[" \o keys[1] \o "](" \o DictGet(entries, here) \o ")"
                     ELSE keys[1]
         IN  Repeat("    ", Len(prefix)) \o "* " \o link \o "\n"
                 \o NavLines(entries, here)
                 \o NavLinesOf(entries, prefix, Tail(keys))

\* the lines of Nav.build_literate_nav() below a prefix, concatenated
NavLines(entries, prefix) == NavLinesOf(entries, prefix, FirstKeys(entries, prefix, {}))

SummaryPath == "reference/SUMMARY.md"

(***************************************************************************)
(* The plugin.                                                             *)
(***************************************************************************)
RECURSIVE BuildModules(_, _)
\* the list comprehension of _get_modules: the modules, or the first error
BuildModules(conf, files) ==
    IF conf = <<>> THEN [ok |-> TRUE, modules |-> <<>>]
    ELSE LET x == conf[1]
             located == IF x.path # "" THEN [ok |-> TRUE, path |-> x.path]
                        ELSE GetModulePath(x.name, files)
         IN  IF ~located.ok THEN [ok |-> FALSE, err |-> located.err]
             ELSE LET rest == BuildModules(Tail(conf), files)
                  IN  IF ~rest.ok THEN rest
                      ELSE [ok |-> TRUE,
                            modules |-> <<[name |-> x.name, path |-> located.path,
                                           exclude_files |-> x.exclude_files,
                                           exclude_dirs |-> x.exclude_dirs,
                                           options |-> x.options]>> \o rest.modules]

GetModulesUnchecked(conf, files) == BuildModules(conf, files)

\* MkDocsPyRefGenPlugin._get_modules
GetModules(conf, files) ==
    LET built == BuildModules(conf, files)
    IN  IF built.ok /\ built.modules = <<>>
        THEN [ok |-> FALSE, err |-> "PluginError"]
        ELSE built

(***************************************************************************)
(* State.                                                                  *)
(***************************************************************************)
VARIABLES
    fs,       \* the files that exist
    config,   \* self.config['modules']
    pc,       \* the position of on_files
    modules,  \* the list _get_modules returned
    mi,       \* the index of the module the loop of on_files is at
    queue,    \* the sorted paths render_ref has still to visit
    nav,      \* the navigation object: <<segments, document path>> entries
    docs,     \* the staged documents: <<path, content>> entries
    ret,      \* what the last call of render_ref returned
    err,      \* the error on_files raised
    trace,    \* history: the calls made and the files visited, in order
    probe,    \* the arguments of a function applied on its own
    out       \* the result of that application

vars == <<fs, config, pc, modules, mi, queue, nav, docs, ret, err, trace, probe, out>>

runVars == <<fs, config, pc, modules, mi, queue, nav, docs, ret, err, trace>>

NoRet == [type |-> "none", entries |-> <<>>]

Idle == [op |-> "idle"]

RunInit ==
    /\ pc = "start"
    /\ modules = <<>>
    /\ mi = 0
    /\ queue = <<>>
    /\ nav = <<>>
    /\ docs = <<>>
    /\ ret = NoRet
    /\ err = ""
    /\ trace = <<>>

Init ==
    /\ fs \in FileSystems
    /\ config \in Configs
    /\ RunInit
    /\ probe = Idle
    /\ out = Idle

Fail(error) ==
    /\ pc' = "failed"
    /\ err' = error

(***************************************************************************)
(* on_files, step by step.                                                 *)
(***************************************************************************)
\* on_files up to the creation of the navigation object: _get_modules
\* returns the modules or raises
OnFiles ==
    /\ pc = "start"
    /\ LET got == GetModules(config, fs)
       IN  IF got.ok
           THEN /\ modules' = got.modules
                /\ mi' = 1
                /\ pc' = "loop"
                /\ err' = err
           ELSE /\ Fail(got.err)
                /\ UNCHANGED <<modules, mi>>
    /\ nav' = <<>>
    /\ UNCHANGED <<fs, config, queue, docs, ret, trace, probe, out>>

\* render_ref is called for the next module and enumerates and sorts its files
RenderStart ==
    /\ pc = "loop"
    /\ mi <= Len(modules)
    /\ LET module == modules[mi]
           found  == RGlob(JoinPath(module.path, module.name), fs)
       IN  \E enum \in Enumerations(found) : queue' = Sorted(enum)
    /\ pc' = "render"
    /\ trace' = Append(trace, [ev |-> "call", m |-> mi, nav |-> nav])
    /\ UNCHANGED <<fs, config, modules, mi, nav, docs, ret, err, probe, out>>

\* the traversal raises
RenderStartFail ==
    /\ pc = "loop"
    /\ mi <= Len(modules)
    /\ Fail("OSError")
    /\ trace' = Append(trace, [ev |-> "call", m |-> mi, nav |-> nav])
    /\ UNCHANGED <<fs, config, modules, mi, queue, nav, docs, ret, probe, out>>

\* one iteration of render_ref's loop that ends in a continue
RenderSkip ==
    /\ pc = "render"
    /\ queue # <<>>
    /\ RenderTarget(Head(queue), modules[mi]).skip
    /\ queue' = Tail(queue)
    /\ trace' = Append(trace, [ev |-> "skip", m |-> mi, path |-> Head(queue)])
    /\ UNCHANGED <<fs, config, pc, modules, mi, nav, docs, ret, err, probe, out>>

\* one iteration of render_ref's loop that registers and writes a stub
RenderEmit ==
    /\ pc = "render"
    /\ queue # <<>>
    /\ LET target == RenderTarget(Head(queue), modules[mi])
       IN  /\ ~target.skip
           /\ nav' = DictSet(nav, target.parts, target.doc_path)
           /\ docs' = DictSet(docs, target.full_doc_path,
                              StubContent(target.parts, modules[mi].options))
           /\ trace' = trace \o
                 << [ev |-> "nav", m |-> mi, path |-> Head(queue),
                     parts |-> target.parts, target |-> target.doc_path],
                    [ev |-> "emit", m |-> mi, path |-> Head(queue),
                     parts |-> target.parts, doc |-> target.full_doc_path] >>
    /\ queue' = Tail(queue)
    /\ UNCHANGED <<fs, config, pc, modules, mi, ret, err, probe, out>>

\* one iteration of render_ref's loop whose open or print raises: the entry
\* is registered, the stub is missing or empty
RenderEmitFail ==
    /\ pc = "render"
    /\ queue # <<>>
    /\ LET target == RenderTarget(Head(queue), modules[mi])
       IN  /\ ~target.skip
           /\ nav' = DictSet(nav, target.parts, target.doc_path)
           /\ docs' \in {docs, DictSet(docs, target.full_doc_path, "")}
           /\ trace' = Append(trace, [ev |-> "nav", m |-> mi, path |-> Head(queue),
                                      parts |-> target.parts, target |-> target.doc_path])
    /\ Fail("OSError")
    /\ UNCHANGED <<fs, config, modules, mi, queue, ret, probe, out>>

\* what render_ref returns: the navigation object
RenderResult(entries) == [type |-> "Nav", entries |-> entries]

\* the document paths a call of render_ref emitted, in order
Emitted(m) ==
    LET idx == SelectSeq([i \in 1..Len(trace) |-> i],
                         LAMBDA i : trace[i].ev = "emit" /\ trace[i].m = m)
    IN  [k \in 1..Len(idx) |-> trace[idx[k]].doc]

\* render_ref returns and the loop of on_files moves on
RenderReturn ==
    /\ pc = "render"
    /\ queue = <<>>
    /\ ret' = RenderResult(nav)
    /\ mi' = mi + 1
    /\ pc' = "loop"
    /\ trace' = Append(trace, [ev |-> "return", m |-> mi, nav |-> nav])
    /\ UNCHANGED <<fs, config, modules, queue, nav, docs, err, probe, out>>

GenerateSummaryEarly ==
    /\ pc = "loop"
    /\ mi >= Len(modules)
    /\ docs' = DictSet(docs, SummaryPath, NavLines(nav, <<>>))
    /\ pc' = "summarised"
    /\ trace' = Append(trace, [ev |-> "summary", nav |-> nav])
    /\ UNCHANGED <<fs, config, modules, mi, queue, nav, ret, err, probe, out>>

\* generate_summary writes the summary document
GenerateSummary ==
    /\ pc = "loop"
    /\ mi > Len(modules)
    /\ docs' = DictSet(docs, SummaryPath, NavLines(nav, <<>>))
    /\ pc' = "summarised"
    /\ trace' = Append(trace, [ev |-> "summary", nav |-> nav])
    /\ UNCHANGED <<fs, config, modules, mi, queue, nav, ret, err, probe, out>>

\* generate_summary raises
GenerateSummaryFail ==
    /\ pc = "loop"
    /\ mi > Len(modules)
    /\ docs' \in {docs, DictSet(docs, SummaryPath, "")}
    /\ Fail("OSError")
    /\ trace' = Append(trace, [ev |-> "summary", nav |-> nav])
    /\ UNCHANGED <<fs, config, modules, mi, queue, nav, ret, probe, out>>

\* on_files returns the edited files
OnFilesReturn ==
    /\ pc = "summarised"
    /\ pc' = "done"
    /\ UNCHANGED <<fs, config, modules, mi, queue, nav, docs, ret, err, trace, probe, out>>

Next ==
    \/ OnFiles
    \/ RenderStart
    \/ RenderStartFail
    \/ RenderSkip
    \/ RenderEmit
    \/ RenderEmitFail
    \/ RenderReturn
    \/ GenerateSummary
    \/ GenerateSummaryFail
    \/ OnFilesReturn

Spec == Init /\ [][Next]_vars

(***************************************************************************)
(* The exclusion predicate applied on its own.                             *)
(***************************************************************************)
ExcludePaths ==
    { "test.py", "dir/test.py", "_priv.py", "r/pkg/mod_a.py", "r/pkg/sub/mod_a.py",
      "r/pkg/__init__.py", "/w/r/pkg/mod_b.py", "r/_x/mod.py" }

ExcludeFileEntries == {"test.py", "a.py", "", "./mod_a.py", "w/test.py"}

ExcludeDirEntries == {"dir", "sub", "", "pkg/"}

ExcludeProbes ==
    [op : {"should_exclude"}, path : ExcludePaths,
     exclude_files : SeqsUpTo(ExcludeFileEntries, MaxExcl),
     exclude_dirs : SeqsUpTo(ExcludeDirEntries, MaxExcl)]

NoRun ==
    /\ fs = {}
    /\ config = <<>>
    /\ pc = "off"
    /\ modules = <<>>
    /\ mi = 0
    /\ queue = <<>>
    /\ nav = <<>>
    /\ docs = <<>>
    /\ ret = NoRet
    /\ err = ""
    /\ trace = <<>>

InitExclude ==
    /\ NoRun
    /\ probe \in ExcludeProbes
    /\ out = Idle

ApplyShouldExclude ==
    /\ probe.op = "should_exclude"
    /\ out = Idle
    /\ out' = [op |-> "should_exclude",
               result |-> ShouldExclude(probe.path, probe.exclude_files, probe.exclude_dirs)]
    /\ UNCHANGED <<runVars, probe>>

NextExclude == ApplyShouldExclude

SpecExclude == InitExclude /\ [][NextExclude]_vars

(***************************************************************************)
(* The option formatter applied on its own.                                *)
(***************************************************************************)
LeafValues == {VStr("value"), VBool(TRUE), VBool(FALSE), VInt(12), VNone}

\* the dicts with keys from keys, each at most once, and values from values
DictsOver(keys, values) ==
    {d \in SeqsUpTo(keys \X values, Cardinality(keys)) :
        \A i, j \in 1..Len(d) : i # j => d[i][1] # d[j][1]}

InnerDicts == DictsOver({"nested", "n2"}, LeafValues)

YamlDicts == DictsOver({"key", "k2"}, LeafValues \cup {VDict(d) : d \in InnerDicts})

YamlProbes == [op : {"dict_to_yaml"}, data : YamlDicts, indent : 0..MaxIndent]

OverrideValues ==
    { VStr("true"), VBool(TRUE), VDict(<<>>),
      VDict(<< <<"modules", VBool(TRUE)>> >>) }

OverrideDicts ==
    {d \in DictsOver({"show_root_heading", "summary", "signature_crossrefs", "extra"},
                     OverrideValues) : Len(d) <= 2}

\* None, False, {} and the non-empty overrides
OptionChoices == {VNone, VBool(FALSE)} \cup {VDict(d) : d \in OverrideDicts}

OptionsProbes == [op : {"get_options_str"}, options : OptionChoices]

MdProbes == [op : {"get_md_content"}, identifier : {"a.b.c", "os.path"},
             options : OptionChoices]

InitFormat ==
    /\ NoRun
    /\ probe \in YamlProbes \cup OptionsProbes \cup MdProbes
    /\ out = Idle

ApplyDictToYaml ==
    /\ probe.op = "dict_to_yaml"
    /\ out = Idle
    /\ out' = [op |-> "dict_to_yaml", result |-> DictToYaml(probe.data, probe.indent)]
    /\ UNCHANGED <<runVars, probe>>

ApplyGetOptionsStr ==
    /\ probe.op = "get_options_str"
    /\ out = Idle
    /\ out' = [op |-> "get_options_str", result |-> GetOptionsStr(probe.options)]
    /\ UNCHANGED <<runVars, probe>>

ApplyGetMdContent ==
    /\ probe.op = "get_md_content"
    /\ out = Idle
    /\ out' = [op |-> "get_md_content",
               result |-> GetMdContent(probe.identifier, probe.options)]
    /\ UNCHANGED <<runVars, probe>>

NextFormat ==
    \/ ApplyDictToYaml
    \/ ApplyGetOptionsStr
    \/ ApplyGetMdContent

SpecFormat == InitFormat /\ [][NextFormat]_vars

(***************************************************************************)
(* The vocabulary of the properties, stated without the operators above.   *)
(***************************************************************************)
\* e is a suffix of s
IsSuffixOf(e, s) == \E k \in 0..Len(s) : SubSeq(s, k + 1, Len(s)) = e

LastSlash(p) ==
    LET at == {i \in 1..Len(p) : CharAt(p, i) = "/"}
    IN  IF at = {} THEN 0 ELSE CHOOSE i \in at : \A j \in at : j <= i

BaseNameOf(p) == SubSeq(p, LastSlash(p) + 1, Len(p))

DirOf(p) == IF LastSlash(p) = 0 THEN "" ELSE SubSeq(p, 1, LastSlash(p) - 1)

IsPrivate(p) == BaseNameOf(p) # "" /\ CharAt(BaseNameOf(p), 1) = "_"

ListedFile(p, files) ==
    \E i \in 1..Len(files) : files[i] # "" /\ IsSuffixOf(AsPosix(files[i]), Absolute(p))

ListedDir(p, dirs) ==
    \E i \in 1..Len(dirs) : dirs[i] # "" /\ IsSuffixOf(AsPosix(dirs[i]), DirOf(p))

Rejected(p, module) ==
    \/ IsPrivate(p)
    \/ ListedFile(p, module.exclude_files)
    \/ ListedDir(p, module.exclude_dirs)
    \/ BaseNameOf(p) = "__main__.py"

\* the files of the file system below a module's traversal root, each
\* spelled the way the traversal of that module spells it
Traversed(module) ==
    LET rootAbs == Absolute(module.path) \o "/" \o module.name \o "/"
    IN  { IF IsAbs(module.path) THEN f ELSE SubSeq(f, Len(Cwd) + 2, Len(f)) :
            f \in {g \in fs : StartsWith(g, rootAbs)} }

\* a path of a module's traversal, relative to the module's rootPath
Below(p, module) == SubSeq(p, Len(module.path) + 2, Len(p))

Events(kind) == {i \in 1..Len(trace) : trace[i].ev = kind}

(***************************************************************************)
(* C1: once render has returned for a module, every package initializer    *)
(* <dir>/__init__.py under its traversal root that the exclude lists do    *)
(* not name has a stub at reference/<dir>/index.md and the navigation      *)
(* entry (segments of <dir>) -> <dir>/index.md.                            *)
(***************************************************************************)
C1_InitializerIndexed ==
    \A i \in Events("return") :
        LET module == modules[trace[i].m]
        IN  \A p \in Traversed(module) :
              ( /\ BaseNameOf(p) = "__init__.py"
                /\ ~ListedFile(p, module.exclude_files)
                /\ ~ListedDir(p, module.exclude_dirs) )
              => LET dir == DirOf(Below(p, module))
                 IN  /\ ("reference/" \o dir \o "/index.md") \in DictKeys(docs)
                     /\ Split(dir, "/") \in DictKeys(nav)
                     /\ DictGet(nav, Split(dir, "/")) = dir \o "/index.md"

(***************************************************************************)
(* C3: no navigation entry is registered and no stub is emitted for a      *)
(* traversed file that is private, named by the exclude lists or the       *)
(* entry point __main__; the step that visits such a file leaves the       *)
(* navigation tree and the staged documents unchanged.                     *)
(***************************************************************************)
C3_NothingForRejected ==
    \A i \in Events("nav") \cup Events("emit") :
        ~Rejected(trace[i].path, modules[trace[i].m])

C3_RejectedStep ==
    (pc = "render" /\ queue # <<>> /\ Rejected(Head(queue), modules[mi]))
        => (nav' = nav /\ docs' = docs /\ Events("nav")' = Events("nav")
            /\ Events("emit")' = Events("emit"))

C3_RejectedLeavesNoTrace == [](C3_NothingForRejected) /\ [][C3_RejectedStep]_vars

\* a call has skipped a file the exclude list names and emitted another
C3_Witness ==
    /\ \E i \in Events("skip") : BaseNameOf(trace[i].path) = "mod_b.py"
    /\ \E i \in Events("skip") : BaseNameOf(trace[i].path) = "__main__.py"
    /\ Events("emit") # {}

(***************************************************************************)
(* C4: render returns the sequence of the document paths it emitted: the   *)
(* sorted return value equals the sorted list of the stubs the call wrote. *)
(***************************************************************************)
C4_ReturnsEmittedPaths ==
    ret.type # "none" =>
        /\ ret.type = "list"
        /\ Len(ret.entries) = Len(Emitted(mi - 1))
        /\ {ret.entries[i] : i \in 1..Len(ret.entries)}
              = {Emitted(mi - 1)[i] : i \in 1..Len(Emitted(mi - 1))}

(***************************************************************************)
(* C2: the exclusion predicate is true of every path with a private base   *)
(* name whatever the lists hold, true of every path whose absolute POSIX   *)
(* path ends with a normalized entry of excludedFiles or whose containing  *)
(* directory ends with a normalized entry of excludedDirectories, and      *)
(* false of a path that is not private and that no entry matches.          *)
(***************************************************************************)
C2_ExclusionPredicate ==
    out.op = "should_exclude" =>
        LET private == IsPrivate(probe.path)
            listed  == \/ ListedFile(probe.path, probe.exclude_files)
                       \/ ListedDir(probe.path, probe.exclude_dirs)
        IN  /\ private => out.result
            /\ listed => out.result
            /\ (~private /\ ~listed) => ~out.result

\* a public file is excluded through a normalized entry that matches the tail
\* of its absolute path
C2_Witness ==
    /\ out.op = "should_exclude"
    /\ probe.path = "test.py"
    /\ probe.exclude_files = <<"", "w/test.py">>
    /\ probe.exclude_dirs = <<"dir">>
    /\ out.result

(***************************************************************************)
(* C5: get_options_str overlays the overrides on the defaults at the top   *)
(* level only: every default key keeps its position, a key's value is the  *)
(* override's if the override has the key and the default otherwise, keys  *)
(* the defaults lack follow; a missing, empty or falsy override gives the  *)
(* default text; an overridden summary map is replaced as a whole.         *)
(***************************************************************************)
DefaultTextBeforeSummary ==
    "      show_root_heading: false\n"
        \o "      allow_inspection: false\n"
        \o "      show_root_full_path: true\n"
        \o "      find_stubs_package: true\n"
        \o "      show_source: false\n"
        \o "      show_submodules: false\n"
        \o "      members_order: source\n"
        \o "      inherited_members: false\n"

DefaultTextSummary ==
    "      summary:\n"
        \o "        attributes: true\n"
        \o "        methods: true\n"
        \o "        classes: true\n"
        \o "        modules: false\n"

DefaultTextAfterSummary ==
    "      imported_members: true\n"
        \o "      docstring_section_style: spacy\n"
        \o "      relative_crossrefs: true\n"
        \o "      show_root_members_full_path: false\n"
        \o "      show_object_full_path: false\n"
        \o "      annotations_path: source\n"
        \o "      show_category_heading: true\n"
        \o "      group_by_category: true\n"
        \o "      show_signature_annotations: true\n"
        \o "      separate_signature: true\n"
        \o "      signature_crossrefs: true\n"

DefaultText == DefaultTextBeforeSummary \o DefaultTextSummary \o DefaultTextAfterSummary

\* the overrides as a dict: nothing for None, False and {}
OverridesOf(options) == IF options.t = "dict" THEN options.d ELSE <<>>

Overlaid(overrides) ==
    [i \in 1..Len(Defaults) |->
        <<Defaults[i][1],
          IF \E j \in 1..Len(overrides) : overrides[j][1] = Defaults[i][1]
          THEN overrides[CHOOSE j \in 1..Len(overrides) : overrides[j][1] = Defaults[i][1]][2]
          ELSE Defaults[i][2]>>]
      \o SelectSeq(overrides, LAMBDA kv : \A i \in 1..Len(Defaults) : Defaults[i][1] # kv[1])

C5_ShallowOverlay ==
    out.op = "get_options_str" =>
        LET overrides == OverridesOf(probe.options)
        IN  /\ out.result = DictToYaml(Overlaid(overrides), 3)
            /\ overrides = <<>> => out.result = DefaultText
            /\ overrides = << <<"summary", VDict(<< <<"modules", VBool(TRUE)>> >>)>> >>
                 => out.result = DefaultTextBeforeSummary
                                   \o "      summary:\n        modules: true\n"
                                   \o DefaultTextAfterSummary

\* a partial summary override together with a key the defaults lack
C5_Witness ==
    /\ out.op = "get_options_str"
    /\ probe.options = VDict(<< <<"extra", VStr("true")>>,
                                <<"summary", VDict(<< <<"modules", VBool(TRUE)>> >>)>> >>)
    /\ out.result = DefaultTextBeforeSummary
                      \o "      summary:\n        modules: true\n"
                      \o DefaultTextAfterSummary \o "      extra: true\n"

(***************************************************************************)
(* C6: dict_to_yaml renders one line per key, in insertion order, nested   *)
(* maps included: two spaces per level, the key, a colon, then nothing     *)
(* more for a map (whose lines follow one level deeper), " true" or        *)
(* " false" for a boolean and a space and the string form for any other    *)
(* value; every line ends with a newline.                                  *)
(***************************************************************************)
RECURSIVE Rows(_, _)
\* the keys of a map and of the maps nested in it, in order, with their levels
Rows(data, level) ==
    IF data = <<>> THEN <<>>
    ELSE <<[level |-> level, key |-> data[1][1], value |-> data[1][2]]>>
           \o (IF data[1][2].t = "dict" THEN Rows(data[1][2].d, level + 1) ELSE <<>>)
           \o Rows(Tail(data), level)

RowText(row) ==
    Repeat("  ", row.level) \o row.key \o ":" \o
        (CASE row.value.t = "dict" -> ""
           [] row.value.t = "bool" -> IF row.value.b THEN " true" ELSE " false"
           [] row.value.t = "str" -> " " \o row.value.s
           [] row.value.t = "int" -> " 12"
           [] row.value.t = "none" -> " None")

C6_OneLinePerKey ==
    out.op = "dict_to_yaml" =>
        LET rows == Rows(probe.data, probe.indent)
        IN  /\ Split(out.result, "\n") = [i \in 1..Len(rows) |-> RowText(rows[i])] \o <<"">>
            /\ (probe.data = << <<"key", VDict(<< <<"nested", VStr("value")>> >>)>> >>
                  /\ probe.indent = 0) => out.result = "key:\n  nested: value\n"

\* a nested map with a boolean below a second key, rendered at indent 1
C6_Witness ==
    /\ out.op = "dict_to_yaml"
    /\ probe.indent = 1
    /\ probe.data = << <<"k2", VInt(12)>>,
                       <<"key", VDict(<< <<"nested", VBool(FALSE)>>, <<"n2", VNone>> >>)>> >>
    /\ out.result = "  k2: 12\n  key:\n    nested: false\n    n2: None\n"

(***************************************************************************)
(* C7: the content of the document render emits for a file is a leading    *)
(* blank line, the directive line "::: <segments joined by '.'>", the      *)
(* handler line, the options line, the option formatter's text for the     *)
(* module's overrides and a trailing blank line.  As stated, the document  *)
(* ends after one blank line; as amended, print adds a newline of its own  *)
(* and the document ends with two blank lines.                             *)
(***************************************************************************)
LastEvent == trace[Len(trace)]

JustEmitted == trace # <<>> /\ LastEvent.ev = "emit"

StubText(parts, options) ==
    "\n"
        \o "::: " \o Join(parts, ".") \o "\n"
        \o "    handler: python\n"
        \o "    options:\n"
        \o DictToYaml(Overlaid(OverridesOf(options)), 3)
        \o "\n"

C7_OneTrailingBlankLine ==
    JustEmitted =>
        DictGet(docs, LastEvent.doc) = StubText(LastEvent.parts, modules[LastEvent.m].options)

C7_TwoTrailingBlankLines ==
    JustEmitted =>
        DictGet(docs, LastEvent.doc)
            = StubText(LastEvent.parts, modules[LastEvent.m].options) \o "\n"

\* the stub of pkg.mod_a has just been written for a module with an override
C7_Witness ==
    /\ JustEmitted
    /\ LastEvent.parts = <<"pkg", "mod_a">>
    /\ LastEvent.doc = "reference/pkg/mod_a.md"
    /\ modules[LastEvent.m].options = VDict(<< <<"show_root_heading", VStr("true")>> >>)
    /\ StartsWith(DictGet(docs, LastEvent.doc),
                  "\n::: pkg.mod_a\n    handler: python\n    options:\n      show_root_heading: true\n")
    /\ EndsWith(DictGet(docs, LastEvent.doc), "      signature_crossrefs: true\n\n\n")

(***************************************************************************)
(* C8: with no module configured on_files fails with the plugin error,     *)
(* and no document has been written and no navigation entry registered.    *)
(***************************************************************************)
C8_NoModulesIsFatal ==
    (config = <<>> /\ pc # "start") =>
        /\ pc = "failed"
        /\ err = "PluginError"
        /\ docs = <<>>
        /\ nav = <<>>
        /\ trace = <<>>

C8_Witness == config = <<>> /\ pc = "failed" /\ err = "PluginError"

(***************************************************************************)
(* C9: render is called once per configured module, in configuration       *)
(* order, each call on the navigation object the previous one left;        *)
(* generate_summary is called at most once, after the render of the last   *)
(* module has returned, on that same object; a run that returns has made   *)
(* all these calls, and a run in which a lookup or a render failed has     *)
(* not called generate_summary.                                            *)
(***************************************************************************)
\* the events of a kind, in order
EventSeq(kind) ==
    LET idx == SelectSeq([i \in 1..Len(trace) |-> i], LAMBDA i : trace[i].ev = kind)
    IN  [k \in 1..Len(idx) |-> trace[idx[k]]]

C9_RenderAllThenSummary ==
    LET calls   == EventSeq("call")
        returns == EventSeq("return")
        sums    == EventSeq("summary")
    IN  /\ \A k \in 1..Len(calls) : calls[k].m = k
        /\ \A k \in 1..Len(returns) : returns[k].m = k
        /\ Len(calls) <= Len(config)
        /\ Len(returns) \in {Len(calls), Len(calls) - 1}
        /\ \A k \in 1..Len(calls) :
              calls[k].nav = IF k = 1 THEN <<>> ELSE returns[k - 1].nav
        /\ Len(sums) <= 1
        /\ sums # <<>> =>
              /\ Len(returns) = Len(config)
              /\ LastEvent.ev = "summary"
              /\ trace[Len(trace) - 1].ev = "return"
              /\ sums[1].nav = returns[Len(returns)].nav
        /\ pc \in {"summarised", "done"} =>
              /\ Len(sums) = 1
              /\ SummaryPath \in DictKeys(docs)
              /\ Len(modules) = Len(config)
        /\ (pc = "failed" /\ sums = <<>>) => SummaryPath \notin DictKeys(docs)
        /\ err \in {"ValueError", "ImportError", "PluginError"} => trace = <<>>

\* a run over two modules has returned
C9_Witness ==
    /\ pc = "done"
    /\ Len(config) = 2
    /\ Len(EventSeq("call")) = 2
    /\ Len(nav) >= 2

(***************************************************************************)
(* C10: within one render call the qualifying files are processed, each    *)
(* registered and then emitted, in ascending order, whatever order the     *)
(* file system enumerates them in.  As stated, the order is that of the    *)
(* full path as a string; as amended, it is that of the path's sequence of *)
(* segments.                                                               *)
(***************************************************************************)
\* the paths a call has registered, in order
Registered(m) ==
    LET idx == SelectSeq([i \in 1..Len(trace) |-> i],
                         LAMBDA i : trace[i].ev = "nav" /\ trace[i].m = m)
    IN  [k \in 1..Len(idx) |-> trace[idx[k]].path]

RegisteredThenEmitted ==
    \A i \in Events("nav") :
        i < Len(trace) => (trace[i + 1].ev = "emit" /\ trace[i + 1].path = trace[i].path)

C10_StringOrder ==
    /\ RegisteredThenEmitted
    /\ \A m \in 1..Len(modules) :
          \A j, k \in 1..Len(Registered(m)) :
              j < k => StrLess(Registered(m)[j], Registered(m)[k])

C10_SegmentOrder ==
    /\ RegisteredThenEmitted
    /\ \A m \in 1..Len(modules) :
          \A j, k \in 1..Len(Registered(m)) :
              j < k => SeqLess(Split(Registered(m)[j], "/"), Split(Registered(m)[k], "/"))

\* a call has processed pkg/sub/mod_a.py before pkg/sub.py
C10_Witness ==
    \E m \in 1..Len(modules) :
        \E j, k \in 1..Len(Registered(m)) :
            /\ j < k
            /\ BaseNameOf(Registered(m)[k]) = "sub.py"
            /\ Below(Registered(m)[j], modules[m]) = "pkg/sub/mod_a.py"
            /\ \E i \in Events("return") : trace[i].m = m

(***************************************************************************)
(* C11: the navigation tree holds at most one entry per segment tuple, and *)
(* entries and stubs correspond one to one: the target of an entry         *)
(* (s1,...,sn) is s1/.../sn.md or s1/.../sn/index.md, a stub exists at     *)
(* reference/<target> and its directive names s1.s2...sn, and every stub   *)
(* has such an entry.  As stated, this holds after any sequence of render  *)
(* calls; as amended, after any sequence of render calls none of which     *)
(* raised between registering an entry and writing its stub.               *)
(***************************************************************************)
EntryHasStub(parts, target) ==
    /\ target \in {Join(parts, "/") \o ".md", Join(parts, "/") \o "/index.md"}
    /\ ("reference/" \o target) \in DictKeys(docs)
    /\ StartsWith(DictGet(docs, "reference/" \o target),
                  "\n::: " \o Join(parts, ".") \o "\n")

EntriesMatchStubs ==
    /\ \A i, j \in 1..Len(nav) : i # j => nav[i][1] # nav[j][1]
    /\ \A i \in 1..Len(nav) : EntryHasStub(nav[i][1], nav[i][2])
    /\ \A k \in 1..Len(docs) :
          docs[k][1] # SummaryPath =>
              \E i \in 1..Len(nav) : docs[k][1] = "reference/" \o nav[i][2]

\* a render call raised after it registered an entry and before it had
\* written the entry's stub
StubWriteRaised == trace # <<>> /\ LastEvent.ev = "nav"

====
